---------------------------- MODULE Spec2Model ----------------------------
(***************************************************************************)
(* The ledger of 90-Days-Backend-Mastery: the bank account registry that   *)
(* recurs in day05 (typed_models.py), day06 (bank_with_errors.py) and      *)
(* day07 (persistent_bank.py).                                             *)
(*                                                                         *)
(* Amounts are integers (whole currency units).  Wall-clock fields         *)
(* (Transaction.timestamp, BankAccount.created_at) and the constant        *)
(* Transaction.success flag are not part of the state: no operation reads  *)
(* them.  A Python Optional[T] is a sequence of at most one element.       *)
(* A Python call is modelled by an operator that returns a record holding  *)
(* the objects it may have mutated, the exception it raised (raised) and   *)
(* the value it returned (value).                                          *)
(***************************************************************************)
EXTENDS Integers, Sequences, FiniteSets, TLC

VARIABLES
    accounts,          \* AccountManager.accounts: account_id -> BankAccount
    _account_counter,  \* AccountManager._account_counter
    data_file,         \* day07: content of AccountManager.data_file on disk
    call,              \* the last call made by the client: [op, args]
    result             \* its outcome: [raised, value]

vars == <<accounts, _account_counter, data_file, call, result>>

---------------------------------------------------------------------------
(* Bounds of the exploration and the inputs the client draws from.         *)

MaxTxn == 2            \* a mutation is attempted while fewer IDs were minted

Owners == <<"Alice", "Bob">>     \* the k-th account is opened for Owners[k]
InitialDeposits == {-1, 0, 2}
Amounts == {-1, 0, 1, 2}
UnknownIds == {"INVALID-123"}

\* the transaction IDs minted so far, over all accounts
RECURSIVE SumCounters(_, _)
SumCounters(accs, ids) ==
    IF ids = {} THEN 0
    ELSE LET k == CHOOSE x \in ids : TRUE
         IN  accs[k]._transaction_counter + SumCounters(accs, ids \ {k})

TotalTxn(accs) == SumCounters(accs, DOMAIN accs)

---------------------------------------------------------------------------
(* Python values.                                                          *)

None == <<>>
Some(x) == <<x>>

Returned(v) == [raised |-> None, value |-> Some(v)]
Raised(e) == [raised |-> Some(e), value |-> None]

RECURSIVE ZeroPad(_, _)
ZeroPad(s, width) == IF Len(s) >= width THEN s ELSE ZeroPad("0" \o s, width)

\* f"{n:0<width>d}" for n >= 0
Format_d(n, width) == ZeroPad(ToString(n), width)

---------------------------------------------------------------------------
(* day06: bank_with_errors.py                                              *)

InsufficientFundsError(balance, amount) ==
    [type |-> "InsufficientFundsError", balance |-> balance,
     amount |-> amount, shortfall |-> amount - balance]

NegativeAmountError(amount, operation) ==
    [type |-> "NegativeAmountError", amount |-> amount, operation |-> operation]

AccountNotFoundError(account_id) ==
    [type |-> "AccountNotFoundError", account_id |-> account_id]

AccountInactiveError(account_id) ==
    [type |-> "AccountInactiveError", account_id |-> account_id]

\* class TransactionType(Enum): a member is its name and its value
TransactionType_DEPOSIT == [name |-> "DEPOSIT", value |-> "DEPOSIT"]
TransactionType_WITHDRAWAL == [name |-> "WITHDRAWAL", value |-> "WITHDRAWAL"]
TransactionType_TRANSFER == [name |-> "TRANSFER", value |-> "TRANSFER"]

Transaction(id, type, amount, balance_after, description) ==
    [id |-> id, type |-> type, amount |-> amount,
     balance_after |-> balance_after, description |-> description]

BankAccount(account_id, owner, balance) ==
    [account_id |-> account_id, owner |-> owner, balance |-> balance,
     is_active |-> TRUE, transactions |-> <<>>, _transaction_counter |-> 0]

\* the ID formatted before the counter is advanced
_generate_transaction_id_format_first(self) ==
    LET s == [self EXCEPT !._transaction_counter = @ + 1]
    IN  [self |-> s,
         value |-> self.account_id \o "-TXN-" \o Format_d(self._transaction_counter, 4)]

\* self._transaction_counter += 1; return f"{account_id}-TXN-{counter:04d}"
_generate_transaction_id(self) ==
    LET s == [self EXCEPT !._transaction_counter = @ + 1]
    IN  [self |-> s,
         value |-> s.account_id \o "-TXN-" \o Format_d(s._transaction_counter, 4)]

\* the check left out
_validate_active_missing(self) == None

\* the exception raised, or None
_validate_active(self) ==
    IF ~self.is_active THEN Some(AccountInactiveError(self.account_id)) ELSE None

\* the check written amount < 0: zero passes
_validate_amount_negative_only(amount, operation) ==
    IF amount < 0 THEN Some(NegativeAmountError(amount, operation)) ELSE None

_validate_amount(amount, operation) ==
    IF amount <= 0 THEN Some(NegativeAmountError(amount, operation)) ELSE None

\* deposit that logs its transaction under the other kind
deposit_wrong_kind(self, amount, description) ==
    LET e1 == _validate_active(self)
        e2 == _validate_amount(amount, "deposit")
        s1 == [self EXCEPT !.balance = @ + amount]
        g  == _generate_transaction_id(s1)
        transaction == Transaction(g.value, TransactionType_WITHDRAWAL, amount, s1.balance, description)
        s2 == [g.self EXCEPT !.transactions = Append(@, transaction)]
    IN  IF e1 # None THEN [self |-> self] @@ Raised(e1[1])
        ELSE IF e2 # None THEN [self |-> self] @@ Raised(e2[1])
        ELSE [self |-> s2] @@ Returned(transaction)

\* deposit that records the balance before the increment
deposit_stale_balance(self, amount, description) ==
    LET e1 == _validate_active(self)
        e2 == _validate_amount(amount, "deposit")
        s1 == [self EXCEPT !.balance = @ + amount]
        g  == _generate_transaction_id(s1)
        transaction == Transaction(g.value, TransactionType_DEPOSIT, amount, self.balance, description)
        s2 == [g.self EXCEPT !.transactions = Append(@, transaction)]
    IN  IF e1 # None THEN [self |-> self] @@ Raised(e1[1])
        ELSE IF e2 # None THEN [self |-> self] @@ Raised(e2[1])
        ELSE [self |-> s2] @@ Returned(transaction)

deposit(self, amount, description) ==
    LET e1 == _validate_active(self)
        e2 == _validate_amount(amount, "deposit")
        s1 == [self EXCEPT !.balance = @ + amount]
        g  == _generate_transaction_id(s1)
        transaction == Transaction(g.value, TransactionType_DEPOSIT, amount, s1.balance, description)
        s2 == [g.self EXCEPT !.transactions = Append(@, transaction)]
    IN  IF e1 # None THEN [self |-> self] @@ Raised(e1[1])
        ELSE IF e2 # None THEN [self |-> self] @@ Raised(e2[1])
        ELSE [self |-> s2] @@ Returned(transaction)

\* withdraw that checks the amount before it checks the account
withdraw_amount_first(self, amount, description) ==
    LET e1 == _validate_active(self)
        e2 == _validate_amount(amount, "withdrawal")
        s1 == [self EXCEPT !.balance = @ - amount]
        g  == _generate_transaction_id(s1)
        transaction == Transaction(g.value, TransactionType_WITHDRAWAL, amount, s1.balance, description)
        s2 == [g.self EXCEPT !.transactions = Append(@, transaction)]
    IN  IF e2 # None THEN [self |-> self] @@ Raised(e2[1])
        ELSE IF e1 # None THEN [self |-> self] @@ Raised(e1[1])
        ELSE IF amount > self.balance
             THEN [self |-> self] @@ Raised(InsufficientFundsError(self.balance, amount))
        ELSE [self |-> s2] @@ Returned(transaction)

\* withdraw without the funds check
withdraw_unchecked(self, amount, description) ==
    LET e1 == _validate_active(self)
        e2 == _validate_amount(amount, "withdrawal")
        s1 == [self EXCEPT !.balance = @ - amount]
        g  == _generate_transaction_id(s1)
        transaction == Transaction(g.value, TransactionType_WITHDRAWAL, amount, s1.balance, description)
        s2 == [g.self EXCEPT !.transactions = Append(@, transaction)]
    IN  IF e1 # None THEN [self |-> self] @@ Raised(e1[1])
        ELSE IF e2 # None THEN [self |-> self] @@ Raised(e2[1])
        ELSE [self |-> s2] @@ Returned(transaction)

\* withdraw that mints the transaction ID before it checks the funds
withdraw_mint_first(self, amount, description) ==
    LET e1 == _validate_active(self)
        e2 == _validate_amount(amount, "withdrawal")
        g  == _generate_transaction_id(self)
        s1 == [g.self EXCEPT !.balance = @ - amount]
        transaction == Transaction(g.value, TransactionType_WITHDRAWAL, amount, s1.balance, description)
        s2 == [s1 EXCEPT !.transactions = Append(@, transaction)]
    IN  IF e1 # None THEN [self |-> self] @@ Raised(e1[1])
        ELSE IF e2 # None THEN [self |-> self] @@ Raised(e2[1])
        ELSE IF amount > self.balance
             THEN [self |-> g.self] @@ Raised(InsufficientFundsError(self.balance, amount))
        ELSE [self |-> s2] @@ Returned(transaction)

withdraw(self, amount, description) ==
    LET e1 == _validate_active(self)
        e2 == _validate_amount(amount, "withdrawal")
        s1 == [self EXCEPT !.balance = @ - amount]
        g  == _generate_transaction_id(s1)
        transaction == Transaction(g.value, TransactionType_WITHDRAWAL, amount, s1.balance, description)
        s2 == [g.self EXCEPT !.transactions = Append(@, transaction)]
    IN  IF e1 # None THEN [self |-> self] @@ Raised(e1[1])
        ELSE IF e2 # None THEN [self |-> self] @@ Raised(e2[1])
        ELSE IF amount > self.balance
             THEN [self |-> self] @@ Raised(InsufficientFundsError(self.balance, amount))
        ELSE [self |-> s2] @@ Returned(transaction)

\* the ID formatted before the counter is advanced
_generate_account_id_format_first(counter) ==
    [counter |-> counter + 1, value |-> "ACC-" \o Format_d(counter, 6)]

\* self._account_counter += 1; return f"ACC-{counter:06d}"
_generate_account_id(counter) ==
    [counter |-> counter + 1, value |-> "ACC-" \o Format_d(counter + 1, 6)]

\* self.accounts[account_id] = account
SetItem(accs, account_id, account) ==
    [k \in DOMAIN accs \cup {account_id} |->
        IF k = account_id THEN account ELSE accs[k]]

\* create_account that logs the opening transaction whatever the deposit
create_account_always_logs(accs, counter, owner, initial_deposit) ==
    LET g == _generate_account_id(counter)
        account_id == g.value
        a0 == BankAccount(account_id, owner, initial_deposit)
        account ==
            [a0 EXCEPT !.transactions = Append(@,
                Transaction(account_id \o "-TXN-0000", TransactionType_DEPOSIT,
                            initial_deposit, initial_deposit,
                            Some("Initial deposit")))]
    IN  IF initial_deposit < 0
        THEN [accounts |-> accs, counter |-> counter]
             @@ Raised(NegativeAmountError(initial_deposit, "initial deposit"))
        ELSE [accounts |-> SetItem(accs, account_id, account), counter |-> g.counter]
             @@ Returned(account)

\* create_account that opens the account empty and calls deposit
create_account_via_deposit(accs, counter, owner, initial_deposit) ==
    LET g == _generate_account_id(counter)
        account_id == g.value
        a0 == BankAccount(account_id, owner, 0)
        account ==
            IF initial_deposit > 0
            THEN deposit(a0, initial_deposit, Some("Initial deposit")).self
            ELSE a0
    IN  IF initial_deposit < 0
        THEN [accounts |-> accs, counter |-> counter]
             @@ Raised(NegativeAmountError(initial_deposit, "initial deposit"))
        ELSE [accounts |-> SetItem(accs, account_id, account), counter |-> g.counter]
             @@ Returned(account)

create_account(accs, counter, owner, initial_deposit) ==
    LET g == _generate_account_id(counter)
        account_id == g.value
        a0 == BankAccount(account_id, owner, initial_deposit)
        account ==
            IF initial_deposit > 0
            THEN [a0 EXCEPT !.transactions = Append(@,
                     Transaction(account_id \o "-TXN-0000", TransactionType_DEPOSIT,
                                 initial_deposit, initial_deposit,
                                 Some("Initial deposit")))]
            ELSE a0
    IN  IF initial_deposit < 0
        THEN [accounts |-> accs, counter |-> counter]
             @@ Raised(NegativeAmountError(initial_deposit, "initial deposit"))
        ELSE [accounts |-> SetItem(accs, account_id, account), counter |-> g.counter]
             @@ Returned(account)

\* the lookup written with setdefault: an unknown ID yields a placeholder
get_account_setdefault(accs, account_id) ==
    IF account_id \notin DOMAIN accs
    THEN [accounts |-> SetItem(accs, account_id, BankAccount(account_id, "", 0))]
         @@ Returned(BankAccount(account_id, "", 0))
    ELSE [accounts |-> accs] @@ Returned(accs[account_id])

get_account(accs, account_id) ==
    IF account_id \notin DOMAIN accs
    THEN [accounts |-> accs] @@ Raised(AccountNotFoundError(account_id))
    ELSE [accounts |-> accs] @@ Returned(accs[account_id])

\* f"{prefix}{other_id}" + (f": {description}" if description else "")
TransferDescription(prefix, other_id, description) ==
    Some(prefix \o other_id \o
         (IF description # None /\ description[1] # ""
          THEN ": " \o description[1] ELSE ""))

\* transfer that looks the destination up only when it needs it
transfer_lazy_lookup(accs, from_id, to_id, amount, description) ==
    LET f  == get_account(accs, from_id)
        w  == withdraw(accs[from_id], amount,
                       TransferDescription("Transfer to ", to_id, description))
        a1 == [accs EXCEPT ![from_id] = w.self]
        t  == get_account(a1, to_id)
        d  == deposit(a1[to_id], amount,
                      TransferDescription("Transfer from ", from_id, description))
        a2 == [a1 EXCEPT ![to_id] = d.self]
    IN  IF f.raised # None THEN [accounts |-> accs] @@ Raised(f.raised[1])
        ELSE IF w.raised # None THEN [accounts |-> a1] @@ Raised(w.raised[1])
        ELSE IF t.raised # None THEN [accounts |-> a1] @@ Raised(t.raised[1])
        ELSE IF d.raised # None THEN [accounts |-> a2] @@ Raised(d.raised[1])
        ELSE [accounts |-> a2] @@ Returned(<<w.value[1], d.value[1]>>)

\* transfer that returns the pair deposit first
transfer_swapped(accs, from_id, to_id, amount, description) ==
    LET f  == get_account(accs, from_id)
        t  == get_account(accs, to_id)
        w  == withdraw(accs[from_id], amount,
                       TransferDescription("Transfer to ", to_id, description))
        a1 == [accs EXCEPT ![from_id] = w.self]
        d  == deposit(a1[to_id], amount,
                      TransferDescription("Transfer from ", from_id, description))
        a2 == [a1 EXCEPT ![to_id] = d.self]
    IN  IF f.raised # None THEN [accounts |-> accs] @@ Raised(f.raised[1])
        ELSE IF t.raised # None THEN [accounts |-> accs] @@ Raised(t.raised[1])
        ELSE IF w.raised # None THEN [accounts |-> a1] @@ Raised(w.raised[1])
        ELSE IF d.raised # None THEN [accounts |-> a2] @@ Raised(d.raised[1])
        ELSE [accounts |-> a2] @@ Returned(<<d.value[1], w.value[1]>>)

\* transfer that credits the destination before it debits the source
transfer_deposit_first(accs, from_id, to_id, amount, description) ==
    LET f  == get_account(accs, from_id)
        t  == get_account(accs, to_id)
        d  == deposit(accs[to_id], amount,
                      TransferDescription("Transfer from ", from_id, description))
        a1 == [accs EXCEPT ![to_id] = d.self]
        w  == withdraw(a1[from_id], amount,
                       TransferDescription("Transfer to ", to_id, description))
        a2 == [a1 EXCEPT ![from_id] = w.self]
    IN  IF f.raised # None THEN [accounts |-> accs] @@ Raised(f.raised[1])
        ELSE IF t.raised # None THEN [accounts |-> accs] @@ Raised(t.raised[1])
        ELSE IF d.raised # None THEN [accounts |-> a1] @@ Raised(d.raised[1])
        ELSE IF w.raised # None THEN [accounts |-> a2] @@ Raised(w.raised[1])
        ELSE [accounts |-> a2] @@ Returned(<<w.value[1], d.value[1]>>)

\* transfer that checks the destination before it touches the source
transfer_checked_first(accs, from_id, to_id, amount, description) ==
    LET f  == get_account(accs, from_id)
        t  == get_account(accs, to_id)
        v  == _validate_active(accs[to_id])
        w  == withdraw(accs[from_id], amount,
                       TransferDescription("Transfer to ", to_id, description))
        a1 == [accs EXCEPT ![from_id] = w.self]
        d  == deposit(a1[to_id], amount,
                      TransferDescription("Transfer from ", from_id, description))
        a2 == [a1 EXCEPT ![to_id] = d.self]
    IN  IF f.raised # None THEN [accounts |-> accs] @@ Raised(f.raised[1])
        ELSE IF t.raised # None THEN [accounts |-> accs] @@ Raised(t.raised[1])
        ELSE IF v # None THEN [accounts |-> accs] @@ Raised(v[1])
        ELSE IF w.raised # None THEN [accounts |-> a1] @@ Raised(w.raised[1])
        ELSE IF d.raised # None THEN [accounts |-> a2] @@ Raised(d.raised[1])
        ELSE [accounts |-> a2] @@ Returned(<<w.value[1], d.value[1]>>)

transfer(accs, from_id, to_id, amount, description) ==
    LET f  == get_account(accs, from_id)
        t  == get_account(accs, to_id)
        w  == withdraw(accs[from_id], amount,
                       TransferDescription("Transfer to ", to_id, description))
        a1 == [accs EXCEPT ![from_id] = w.self]
        \* to_account is the object stored under to_id, the one just debited
        \* when to_id = from_id
        d  == deposit(a1[to_id], amount,
                      TransferDescription("Transfer from ", from_id, description))
        a2 == [a1 EXCEPT ![to_id] = d.self]
    IN  IF f.raised # None THEN [accounts |-> accs] @@ Raised(f.raised[1])
        ELSE IF t.raised # None THEN [accounts |-> accs] @@ Raised(t.raised[1])
        ELSE IF w.raised # None THEN [accounts |-> a1] @@ Raised(w.raised[1])
        ELSE IF d.raised # None THEN [accounts |-> a2] @@ Raised(d.raised[1])
        ELSE [accounts |-> a2] @@ Returned(<<w.value[1], d.value[1]>>)

---------------------------------------------------------------------------
(* The client of the day06 ledger: one action per public operation.        *)

Init ==
    /\ accounts = <<>>
    /\ _account_counter = 0
    /\ data_file = None
    /\ call = [op |-> "AccountManager", args |-> <<>>]
    /\ result = [raised |-> None, value |-> None]

Outcome(r) == [raised |-> r.raised, value |-> r.value]

CreateAccount ==
    /\ _account_counter < Len(Owners)
    /\ \E initial_deposit \in InitialDeposits :
        LET owner == Owners[_account_counter + 1]
            r == create_account(accounts, _account_counter, owner, initial_deposit)
        IN  /\ accounts' = r.accounts
            /\ _account_counter' = r.counter
            /\ call' = [op |-> "create_account", args |-> <<owner, initial_deposit>>]
            /\ result' = Outcome(r)
            /\ UNCHANGED data_file

Deposit ==
    \E account_id \in DOMAIN accounts, amount \in Amounts :
        LET r == deposit(accounts[account_id], amount, None)
        IN  /\ TotalTxn(accounts) < MaxTxn
            /\ accounts' = [accounts EXCEPT ![account_id] = r.self]
            /\ call' = [op |-> "deposit", args |-> <<account_id, amount>>]
            /\ result' = Outcome(r)
            /\ UNCHANGED <<_account_counter, data_file>>

Withdraw ==
    \E account_id \in DOMAIN accounts, amount \in Amounts :
        LET r == withdraw(accounts[account_id], amount, None)
        IN  /\ TotalTxn(accounts) < MaxTxn
            /\ accounts' = [accounts EXCEPT ![account_id] = r.self]
            /\ call' = [op |-> "withdraw", args |-> <<account_id, amount>>]
            /\ result' = Outcome(r)
            /\ UNCHANGED <<_account_counter, data_file>>

GetAccount ==
    \E account_id \in DOMAIN accounts \cup UnknownIds :
        LET r == get_account(accounts, account_id)
        IN  /\ accounts' = r.accounts
            /\ call' = [op |-> "get_account", args |-> <<account_id>>]
            /\ result' = Outcome(r)
            /\ UNCHANGED <<_account_counter, data_file>>

Transfer ==
    \E from_id \in DOMAIN accounts \cup UnknownIds,
       to_id \in DOMAIN accounts \cup UnknownIds,
       amount \in Amounts :
        LET r == transfer(accounts, from_id, to_id, amount, None)
        IN  /\ TotalTxn(accounts) < MaxTxn
            /\ accounts' = r.accounts
            /\ call' = [op |-> "transfer", args |-> <<from_id, to_id, amount>>]
            /\ result' = Outcome(r)
            /\ UNCHANGED <<_account_counter, data_file>>

\* the client's assignment account.is_active = False
Deactivate ==
    \E account_id \in DOMAIN accounts :
        /\ accounts[account_id].is_active
        /\ accounts' = [accounts EXCEPT ![account_id].is_active = FALSE]
        /\ call' = [op |-> "is_active = False", args |-> <<account_id>>]
        /\ result' = [raised |-> None, value |-> None]
        /\ UNCHANGED <<_account_counter, data_file>>

Next ==
    \/ CreateAccount
    \/ Deposit
    \/ Withdraw
    \/ GetAccount
    \/ Transfer
    \/ Deactivate

Spec == Init /\ [][Next]_vars

---------------------------------------------------------------------------
(* day07: persistent_bank.py.  The accounts have no is_active field, the   *)
(* manager writes its whole state to data_file after every mutation and    *)
(* reads it back when it is constructed.  The content of data_file is the  *)
(* JSON document, held as the value json.load returns for it (objects with *)
(* string keys, arrays, numbers, strings, null), or Undecodable when the   *)
(* text in the file is not a JSON document.                                *)

Persistent_InsufficientFundsError(balance, amount) ==
    [type |-> "InsufficientFundsError", balance |-> balance, amount |-> amount]

\* the amount only shows in the message
Persistent_NegativeAmountError(amount) ==
    [type |-> "NegativeAmountError", message_amount |-> amount]

Persistent_AccountNotFoundError(account_id) ==
    [type |-> "AccountNotFoundError", message_account_id |-> account_id]

Persistent_TransactionType_DEPOSIT == [name |-> "DEPOSIT", value |-> "DEPOSIT"]
Persistent_TransactionType_WITHDRAWAL == [name |-> "WITHDRAWAL", value |-> "WITHDRAWAL"]

\* TransactionType(value): the member with that value
Persistent_TransactionType(value) ==
    CHOOSE m \in {Persistent_TransactionType_DEPOSIT,
                  Persistent_TransactionType_WITHDRAWAL} : m.value = value

Persistent_Transaction(id, type, amount, balance_after, description) ==
    [id |-> id, type |-> type, amount |-> amount,
     balance_after |-> balance_after, description |-> description]

Transaction_to_dict(self) ==
    [id |-> self.id, type |-> self.type.value, amount |-> self.amount,
     balance_after |-> self.balance_after, description |-> self.description]

\* from_dict with amount and balance_after taken from each other's key
Transaction_from_dict_swapped(data) ==
    Persistent_Transaction(
        data.id, Persistent_TransactionType(data.type), data.balance_after,
        data.amount,
        IF "description" \in DOMAIN data THEN data.description ELSE None)

Transaction_from_dict(data) ==
    Persistent_Transaction(
        data.id, Persistent_TransactionType(data.type), data.amount,
        data.balance_after,
        IF "description" \in DOMAIN data THEN data.description ELSE None)

Persistent_BankAccount(account_id, owner, balance, transactions) ==
    [account_id |-> account_id, owner |-> owner, balance |-> balance,
     transactions |-> transactions, _transaction_counter |-> 0]

Persistent__generate_transaction_id(self) ==
    LET s == [self EXCEPT !._transaction_counter = @ + 1]
    IN  [self |-> s,
         value |-> s.account_id \o "-TXN-" \o Format_d(s._transaction_counter, 4)]

Persistent_deposit(self, amount, description) ==
    LET s1 == [self EXCEPT !.balance = @ + amount]
        g  == Persistent__generate_transaction_id(s1)
        txn == Persistent_Transaction(g.value, Persistent_TransactionType_DEPOSIT,
                                      amount, s1.balance, description)
        s2 == [g.self EXCEPT !.transactions = Append(@, txn)]
    IN  IF amount <= 0
        THEN [self |-> self] @@ Raised(Persistent_NegativeAmountError(amount))
        ELSE [self |-> s2] @@ Returned(txn)

Persistent_withdraw(self, amount, description) ==
    LET s1 == [self EXCEPT !.balance = @ - amount]
        g  == Persistent__generate_transaction_id(s1)
        txn == Persistent_Transaction(g.value, Persistent_TransactionType_WITHDRAWAL,
                                      amount, s1.balance, description)
        s2 == [g.self EXCEPT !.transactions = Append(@, txn)]
    IN  IF amount <= 0
        THEN [self |-> self] @@ Raised(Persistent_NegativeAmountError(amount))
        ELSE IF amount > self.balance
        THEN [self |-> self]
             @@ Raised(Persistent_InsufficientFundsError(self.balance, amount))
        ELSE [self |-> s2] @@ Returned(txn)

\* to_dict that leaves the private counter out
BankAccount_to_dict_no_counter(self) ==
    [account_id |-> self.account_id,
     owner |-> self.owner,
     balance |-> self.balance,
     transactions |-> [i \in DOMAIN self.transactions |->
                          Transaction_to_dict(self.transactions[i])]]

BankAccount_to_dict(self) ==
    [account_id |-> self.account_id,
     owner |-> self.owner,
     balance |-> self.balance,
     transactions |-> [i \in DOMAIN self.transactions |->
                          Transaction_to_dict(self.transactions[i])],
     _transaction_counter |-> self._transaction_counter]

\* from_dict that takes the length of the log for the counter
BankAccount_from_dict_len_counter(data) ==
    LET account == Persistent_BankAccount(
                       data.account_id, data.owner, data.balance,
                       [i \in DOMAIN data.transactions |->
                           Transaction_from_dict(data.transactions[i])])
    IN  [account EXCEPT !._transaction_counter = Len(account.transactions)]

\* from_dict that leaves the counter of the new object at its default
BankAccount_from_dict_counter_reset(data) ==
    Persistent_BankAccount(
        data.account_id, data.owner, data.balance,
        [i \in DOMAIN data.transactions |->
            Transaction_from_dict(data.transactions[i])])

BankAccount_from_dict(data) ==
    LET account == Persistent_BankAccount(
                       data.account_id, data.owner, data.balance,
                       [i \in DOMAIN data.transactions |->
                           Transaction_from_dict(data.transactions[i])])
    IN  [account EXCEPT !._transaction_counter =
            IF "_transaction_counter" \in DOMAIN data
            THEN data._transaction_counter
            ELSE Len(account.transactions)]

JSONDecodeError == [type |-> "JSONDecodeError"]

\* text that is not a JSON document: what open(data_file, 'w') followed by a
\* json.dump that did not run to its end leaves in the file
Undecodable == [undecodable |-> TRUE]

\* the error of open() or of a write on data_file: OSError, which IOError
\* names, or a subclass of it (FileNotFoundError, PermissionError)
IOError == [type |-> "OSError"]

\* what the file system does with open(data_file, 'w') and json.dump:
\* the document is written; open() fails and the file stays as it was;
\* open() has emptied the file and a write fails (disk full, size limit)
SaveOutcomes == {"written", "open fails", "write fails"}

\* the manager object: [accounts, _account_counter, data_file]
\* io: the outcome of the file system, one of SaveOutcomes
save_to_file(self, io) ==
    LET data == [accounts |-> [aid \in DOMAIN self.accounts |->
                                  BankAccount_to_dict(self.accounts[aid])],
                 _account_counter |-> self._account_counter]
    IN  CASE io = "written" ->
               [self |-> [self EXCEPT !.data_file = Some(data)], raised |-> None]
          [] io = "open fails" ->
               [self |-> self, raised |-> Some(IOError)]
          [] io = "write fails" ->
               [self |-> [self EXCEPT !.data_file = Some(Undecodable)],
                raised |-> Some(IOError)]

\* json.load(f) on the content of the file
json_load(content) ==
    IF content = Undecodable THEN Raised(JSONDecodeError) ELSE Returned(content)

\* load that restores the accounts and not the account counter
load_from_file_no_counter(self) ==
    IF self.data_file = None
    THEN [self |-> self, raised |-> None]
    ELSE LET j == json_load(self.data_file[1])
             data == j.value[1]
             accs == IF "accounts" \in DOMAIN data
                     THEN [aid \in DOMAIN data.accounts |->
                              BankAccount_from_dict(data.accounts[aid])]
                     ELSE <<>>
         IN  IF j.raised # None
             THEN [self |-> self, raised |-> j.raised]
             ELSE [self |-> [self EXCEPT !.accounts = accs], raised |-> None]

\* load that swallows the decode error and keeps the empty defaults
load_from_file_fallback(self) ==
    IF self.data_file = None
    THEN [self |-> self, raised |-> None]
    ELSE LET j == json_load(self.data_file[1])
             data == j.value[1]
             accs == IF "accounts" \in DOMAIN data
                     THEN [aid \in DOMAIN data.accounts |->
                              BankAccount_from_dict(data.accounts[aid])]
                     ELSE <<>>
         IN  IF j.raised # None
             THEN [self |-> self, raised |-> None]
             ELSE [self |-> [self EXCEPT
                               !.accounts = accs,
                               !._account_counter =
                                   IF "_account_counter" \in DOMAIN data
                                   THEN data._account_counter
                                   ELSE Cardinality(DOMAIN accs)],
                   raised |-> None]

\* [self, raised]: the manager after the call and the exception that left it
load_from_file(self) ==
    IF self.data_file = None
    THEN [self |-> self, raised |-> None]      \* FileNotFoundError is caught
    ELSE LET j == json_load(self.data_file[1])
             data == j.value[1]
             accs == IF "accounts" \in DOMAIN data
                     THEN [aid \in DOMAIN data.accounts |->
                              BankAccount_from_dict(data.accounts[aid])]
                     ELSE <<>>
         IN  IF j.raised # None
             THEN [self |-> self, raised |-> j.raised]   \* logged, then raise
             ELSE [self |-> [self EXCEPT
                               !.accounts = accs,
                               !._account_counter =
                                   IF "_account_counter" \in DOMAIN data
                                   THEN data._account_counter
                                   ELSE Cardinality(DOMAIN accs)],
                   raised |-> None]

\* the constructor with the counter defaulting to 1
AccountManager__post_init___counter_one(file) ==
    LET self == [accounts |-> <<>>, _account_counter |-> 1, data_file |-> file]
    IN  IF file # None THEN load_from_file(self)
        ELSE [self |-> self, raised |-> None]

\* AccountManager(data_file=...): the defaults, then __post_init__
AccountManager__post_init__(file) ==
    LET self == [accounts |-> <<>>, _account_counter |-> 0, data_file |-> file]
    IN  IF file # None THEN load_from_file(self)
        ELSE [self |-> self, raised |-> None]

Persistent__generate_account_id(self) ==
    LET s == [self EXCEPT !._account_counter = @ + 1]
    IN  [self |-> s, value |-> "ACC-" \o Format_d(s._account_counter, 6)]

\* create_account that takes its ID before it checks the deposit
Persistent_create_account_mint_first(self, owner, initial_deposit, io) ==
    LET g == Persistent__generate_account_id(self)
        account_id == g.value
        a0 == Persistent_BankAccount(account_id, owner, initial_deposit, <<>>)
        account ==
            IF initial_deposit > 0
            THEN [a0 EXCEPT !.transactions = Append(@,
                     Persistent_Transaction(
                         account_id \o "-TXN-0000", Persistent_TransactionType_DEPOSIT,
                         initial_deposit, initial_deposit, Some("Initial deposit")))]
            ELSE a0
        s1 == [g.self EXCEPT !.accounts = SetItem(@, account_id, account)]
        sv == save_to_file(s1, io)
    IN  IF initial_deposit < 0
        THEN [self |-> g.self] @@ Raised(Persistent_NegativeAmountError(initial_deposit))
        ELSE IF sv.raised # None THEN [self |-> sv.self] @@ Raised(sv.raised[1])
        ELSE [self |-> sv.self] @@ Returned(account)

Persistent_create_account(self, owner, initial_deposit, io) ==
    LET g == Persistent__generate_account_id(self)
        account_id == g.value
        a0 == Persistent_BankAccount(account_id, owner, initial_deposit, <<>>)
        account ==
            IF initial_deposit > 0
            THEN [a0 EXCEPT !.transactions = Append(@,
                     Persistent_Transaction(
                         account_id \o "-TXN-0000", Persistent_TransactionType_DEPOSIT,
                         initial_deposit, initial_deposit, Some("Initial deposit")))]
            ELSE a0
        s1 == [g.self EXCEPT !.accounts = SetItem(@, account_id, account)]
        sv == save_to_file(s1, io)
    IN  IF initial_deposit < 0
        THEN [self |-> self] @@ Raised(Persistent_NegativeAmountError(initial_deposit))
        ELSE IF sv.raised # None THEN [self |-> sv.self] @@ Raised(sv.raised[1])
        ELSE [self |-> sv.self] @@ Returned(account)

Persistent_get_account(self, account_id) ==
    IF account_id \notin DOMAIN self.accounts
    THEN [self |-> self] @@ Raised(Persistent_AccountNotFoundError(account_id))
    ELSE [self |-> self] @@ Returned(self.accounts[account_id])

AccountManager_deposit(self, account_id, amount, description, io) ==
    LET a == Persistent_get_account(self, account_id)
        r == Persistent_deposit(self.accounts[account_id], amount, description)
        s1 == [self EXCEPT !.accounts[account_id] = r.self]
        sv == save_to_file(s1, io)
    IN  IF a.raised # None THEN [self |-> self] @@ Raised(a.raised[1])
        ELSE IF r.raised # None THEN [self |-> s1] @@ Raised(r.raised[1])
        ELSE IF sv.raised # None THEN [self |-> sv.self] @@ Raised(sv.raised[1])
        ELSE [self |-> sv.self] @@ Returned(r.value[1])

AccountManager_withdraw(self, account_id, amount, description, io) ==
    LET a == Persistent_get_account(self, account_id)
        r == Persistent_withdraw(self.accounts[account_id], amount, description)
        s1 == [self EXCEPT !.accounts[account_id] = r.self]
        sv == save_to_file(s1, io)
    IN  IF a.raised # None THEN [self |-> self] @@ Raised(a.raised[1])
        ELSE IF r.raised # None THEN [self |-> s1] @@ Raised(r.raised[1])
        ELSE IF sv.raised # None THEN [self |-> sv.self] @@ Raised(sv.raised[1])
        ELSE [self |-> sv.self] @@ Returned(r.value[1])

---------------------------------------------------------------------------
(* The client of the day07 ledger.                                         *)

Manager ==
    [accounts |-> accounts, _account_counter |-> _account_counter,
     data_file |-> data_file]

Becomes(self) ==
    /\ accounts' = self.accounts
    /\ _account_counter' = self._account_counter
    /\ data_file' = self.data_file

\* the client holds a manager: the process runs and the constructor returned
ManagerExists ==
    /\ call.op # "stopped in save_to_file"
    /\ ~(call.op = "AccountManager" /\ result.raised # None)

PersistentCreateAccount ==
    /\ ManagerExists
    /\ _account_counter < Len(Owners)
    /\ \E initial_deposit \in InitialDeposits, io \in SaveOutcomes :
        LET owner == Owners[_account_counter + 1]
            r == Persistent_create_account(Manager, owner, initial_deposit, io)
        IN  /\ Becomes(r.self)
            /\ call' = [op |-> "create_account", args |-> <<owner, initial_deposit>>]
            /\ result' = Outcome(r)

PersistentDeposit ==
    \E account_id \in DOMAIN accounts \cup UnknownIds, amount \in Amounts,
       io \in SaveOutcomes :
        LET r == AccountManager_deposit(Manager, account_id, amount, None, io)
        IN  /\ ManagerExists
            /\ TotalTxn(accounts) < MaxTxn
            /\ Becomes(r.self)
            /\ call' = [op |-> "deposit", args |-> <<account_id, amount>>]
            /\ result' = Outcome(r)

PersistentWithdraw ==
    \E account_id \in DOMAIN accounts \cup UnknownIds, amount \in Amounts,
       io \in SaveOutcomes :
        LET r == AccountManager_withdraw(Manager, account_id, amount, None, io)
        IN  /\ ManagerExists
            /\ TotalTxn(accounts) < MaxTxn
            /\ Becomes(r.self)
            /\ call' = [op |-> "withdraw", args |-> <<account_id, amount>>]
            /\ result' = Outcome(r)

PersistentGetAccount ==
    \E account_id \in DOMAIN accounts \cup UnknownIds :
        LET r == Persistent_get_account(Manager, account_id)
        IN  /\ ManagerExists
            /\ Becomes(r.self)
            /\ call' = [op |-> "get_account", args |-> <<account_id>>]
            /\ result' = Outcome(r)

\* the client calls deposit on an account object it holds (create_account
\* and get_account return the objects of the manager): nothing is saved
PersistentAccountDeposit ==
    \E account_id \in DOMAIN accounts, amount \in Amounts :
        LET r == Persistent_deposit(accounts[account_id], amount, None)
        IN  /\ ManagerExists
            /\ TotalTxn(accounts) < MaxTxn
            /\ accounts' = [accounts EXCEPT ![account_id] = r.self]
            /\ UNCHANGED <<_account_counter, data_file>>
            /\ call' = [op |-> "BankAccount.deposit", args |-> <<account_id, amount>>]
            /\ result' = Outcome(r)

\* the client calls withdraw on an account object it holds
PersistentAccountWithdraw ==
    \E account_id \in DOMAIN accounts, amount \in Amounts :
        LET r == Persistent_withdraw(accounts[account_id], amount, None)
        IN  /\ ManagerExists
            /\ TotalTxn(accounts) < MaxTxn
            /\ accounts' = [accounts EXCEPT ![account_id] = r.self]
            /\ UNCHANGED <<_account_counter, data_file>>
            /\ call' = [op |-> "BankAccount.withdraw", args |-> <<account_id, amount>>]
            /\ result' = Outcome(r)

\* the client calls save_to_file itself
PersistentSave ==
    \E io \in SaveOutcomes :
        LET r == save_to_file(Manager, io)
        IN  /\ ManagerExists
            /\ Becomes(r.self)
            /\ call' = [op |-> "save_to_file", args |-> <<>>]
            /\ result' = [raised |-> r.raised, value |-> None]

\* the process ends and a new one constructs AccountManager() on the same file
\* when the constructor raises the client gets no manager
Restart ==
    LET r == AccountManager__post_init__(data_file)
    IN  /\ Becomes(r.self)
        /\ call' = [op |-> "AccountManager", args |-> <<>>]
        /\ result' = [raised |-> r.raised, value |-> None]

\* the process stops inside a save_to_file that a create_account, deposit,
\* withdraw or save_to_file call reached: open(data_file, 'w') has emptied
\* the file and json.dump has not written the whole document; the objects
\* of the process are gone
StopInSave ==
    /\ ManagerExists
    /\ accounts' = <<>>
    /\ _account_counter' = 0
    /\ data_file' = Some(Undecodable)
    /\ call' = [op |-> "stopped in save_to_file", args |-> <<>>]
    /\ result' = [raised |-> None, value |-> None]

NextPersistent ==
    \/ PersistentCreateAccount
    \/ PersistentDeposit
    \/ PersistentWithdraw
    \/ PersistentGetAccount
    \/ PersistentAccountDeposit
    \/ PersistentAccountWithdraw
    \/ PersistentSave
    \/ Restart
    \/ StopInSave

SpecPersistent == Init /\ [][NextPersistent]_vars

---------------------------------------------------------------------------
(* day05: typed_models.py.  No counters: IDs are derived from collection   *)
(* lengths; a transaction holds no balance_after; every failure is a       *)
(* ValueError; get_account returns an Optional.                            *)

ValueError(message) == [type |-> "ValueError", message |-> message]

Typed_TransactionType_DEPOSIT == [name |-> "DEPOSIT", value |-> "deposit"]
Typed_TransactionType_WITHDRAWAL == [name |-> "WITHDRAWAL", value |-> "withdrawal"]
Typed_TransactionType_TRANSFER == [name |-> "TRANSFER", value |-> "transfer"]

\* the dataclass constructor with its __post_init__ check
Typed_Transaction(id, amount, type, description) ==
    IF amount <= 0
    THEN Raised(ValueError("Transaction amount must be positive"))
    ELSE Returned([id |-> id, amount |-> amount, type |-> type,
                   description |-> description])

Typed_BankAccount(account_id, owner, balance) ==
    [account_id |-> account_id, owner |-> owner, balance |-> balance,
     transactions |-> <<>>, is_active |-> TRUE]

Typed_deposit(self, amount, description) ==
    LET s1 == [self EXCEPT !.balance = @ + amount]
        t  == Typed_Transaction("TXN-" \o Format_d(Len(self.transactions) + 1, 4),
                                amount, Typed_TransactionType_DEPOSIT, description)
        s2 == [s1 EXCEPT !.transactions = Append(@, t.value[1])]
    IN  IF ~self.is_active
        THEN [self |-> self] @@ Raised(ValueError("Cannot deposit to inactive account"))
        ELSE IF amount <= 0
        THEN [self |-> self] @@ Raised(ValueError("Deposit amount must be positive"))
        ELSE IF t.raised # None THEN [self |-> s1] @@ Raised(t.raised[1])
        ELSE [self |-> s2] @@ Returned(t.value[1])

Typed_withdraw(self, amount, description) ==
    LET s1 == [self EXCEPT !.balance = @ - amount]
        t  == Typed_Transaction("TXN-" \o Format_d(Len(self.transactions) + 1, 4),
                                amount, Typed_TransactionType_WITHDRAWAL, description)
        s2 == [s1 EXCEPT !.transactions = Append(@, t.value[1])]
    IN  IF ~self.is_active
        THEN [self |-> self] @@ Raised(ValueError("Cannot withdraw from inactive account"))
        ELSE IF amount <= 0
        THEN [self |-> self] @@ Raised(ValueError("Withdrawal amount must be positive"))
        ELSE IF amount > self.balance
        THEN [self |-> self] @@ Raised(ValueError("Insufficient funds"))
        ELSE IF t.raised # None THEN [self |-> s1] @@ Raised(t.raised[1])
        ELSE [self |-> s2] @@ Returned(t.value[1])

Typed_create_account(accs, owner, initial_deposit) ==
    LET account_id == "ACC-" \o Format_d(Cardinality(DOMAIN accs) + 1, 6)
        a0 == Typed_BankAccount(account_id, owner, initial_deposit)
        t  == Typed_Transaction("TXN-0001", initial_deposit,
                                Typed_TransactionType_DEPOSIT, Some("Initial deposit"))
        account ==
            IF initial_deposit > 0
            THEN [a0 EXCEPT !.transactions = Append(@, t.value[1])]
            ELSE a0
    IN  IF initial_deposit > 0 /\ t.raised # None
        THEN [accounts |-> accs] @@ Raised(t.raised[1])
        ELSE [accounts |-> SetItem(accs, account_id, account)] @@ Returned(account)

\* Optional[BankAccount]
Typed_get_account(accs, account_id) ==
    IF account_id \in DOMAIN accs THEN Some(accs[account_id]) ELSE None

Typed_transfer(accs, from_account_id, to_account_id, amount) ==
    LET from_account == Typed_get_account(accs, from_account_id)
        to_account == Typed_get_account(accs, to_account_id)
        w  == Typed_withdraw(accs[from_account_id], amount,
                             Some("Transfer to " \o to_account_id))
        a1 == [accs EXCEPT ![from_account_id] = w.self]
        d  == Typed_deposit(a1[to_account_id], amount,
                            Some("Transfer from " \o from_account_id))
        a2 == [a1 EXCEPT ![to_account_id] = d.self]
    IN  IF from_account = None
        THEN [accounts |-> accs]
             @@ Raised(ValueError("Source account " \o from_account_id \o " not found"))
        ELSE IF to_account = None
        THEN [accounts |-> accs]
             @@ Raised(ValueError("Destination account " \o to_account_id \o " not found"))
        ELSE IF w.raised # None THEN [accounts |-> a1] @@ Raised(w.raised[1])
        ELSE IF d.raised # None THEN [accounts |-> a2] @@ Raised(d.raised[1])
        ELSE [accounts |-> a2] @@ Returned(<<w.value[1], d.value[1]>>)

\* sum(acc.balance for acc in self.accounts.values() if acc.is_active)
RECURSIVE SumBalances(_, _)
SumBalances(accs, ids) ==
    IF ids = {} THEN 0
    ELSE LET k == CHOOSE x \in ids : TRUE
         IN  accs[k].balance + SumBalances(accs, ids \ {k})

\* the sum without the is_active filter
get_total_balance_all(accs) ==
    SumBalances(accs, DOMAIN accs)

get_total_balance(accs) ==
    SumBalances(accs, {k \in DOMAIN accs : accs[k].is_active})

---------------------------------------------------------------------------
(* The client of the day05 ledger.                                         *)

TypedOwners == <<"Alice", "Bob", "Carol">>
TypedAmounts == {0, 1}

\* the transactions logged so far, over all accounts
RECURSIVE SumLogs(_, _)
SumLogs(accs, ids) ==
    IF ids = {} THEN 0
    ELSE LET k == CHOOSE x \in ids : TRUE
         IN  Len(accs[k].transactions) + SumLogs(accs, ids \ {k})

TotalLogged(accs) == SumLogs(accs, DOMAIN accs)

TypedCreateAccount ==
    /\ Cardinality(DOMAIN accounts) < Len(TypedOwners)
    /\ \E initial_deposit \in InitialDeposits :
        LET owner == TypedOwners[Cardinality(DOMAIN accounts) + 1]
            r == Typed_create_account(accounts, owner, initial_deposit)
        IN  /\ accounts' = r.accounts
            /\ call' = [op |-> "create_account", args |-> <<owner, initial_deposit>>]
            /\ result' = Outcome(r)
            /\ UNCHANGED <<_account_counter, data_file>>

TypedDeposit ==
    \E account_id \in DOMAIN accounts, amount \in TypedAmounts :
        LET r == Typed_deposit(accounts[account_id], amount, None)
        IN  /\ TotalLogged(accounts) < MaxTxn
            /\ accounts' = [accounts EXCEPT ![account_id] = r.self]
            /\ call' = [op |-> "deposit", args |-> <<account_id, amount>>]
            /\ result' = Outcome(r)
            /\ UNCHANGED <<_account_counter, data_file>>

TypedWithdraw ==
    \E account_id \in DOMAIN accounts, amount \in TypedAmounts :
        LET r == Typed_withdraw(accounts[account_id], amount, None)
        IN  /\ TotalLogged(accounts) < MaxTxn
            /\ accounts' = [accounts EXCEPT ![account_id] = r.self]
            /\ call' = [op |-> "withdraw", args |-> <<account_id, amount>>]
            /\ result' = Outcome(r)
            /\ UNCHANGED <<_account_counter, data_file>>

TypedTransfer ==
    \E from_id \in DOMAIN accounts \cup UnknownIds,
       to_id \in DOMAIN accounts \cup UnknownIds,
       amount \in TypedAmounts :
        LET r == Typed_transfer(accounts, from_id, to_id, amount)
        IN  /\ TotalLogged(accounts) < MaxTxn
            /\ accounts' = r.accounts
            /\ call' = [op |-> "transfer", args |-> <<from_id, to_id, amount>>]
            /\ result' = Outcome(r)
            /\ UNCHANGED <<_account_counter, data_file>>

\* the client's assignment account.is_active = False
TypedDeactivate ==
    \E account_id \in DOMAIN accounts :
        /\ accounts[account_id].is_active
        /\ accounts' = [accounts EXCEPT ![account_id].is_active = FALSE]
        /\ call' = [op |-> "is_active = False", args |-> <<account_id>>]
        /\ result' = [raised |-> None, value |-> None]
        /\ UNCHANGED <<_account_counter, data_file>>

TypedGetTotalBalance ==
    /\ call' = [op |-> "get_total_balance", args |-> <<>>]
    /\ result' = Returned(get_total_balance(accounts))
    /\ UNCHANGED <<accounts, _account_counter, data_file>>

NextTyped ==
    \/ TypedCreateAccount
    \/ TypedDeposit
    \/ TypedWithdraw
    \/ TypedTransfer
    \/ TypedDeactivate
    \/ TypedGetTotalBalance

SpecTyped == Init /\ [][NextTyped]_vars

---------------------------------------------------------------------------
(* Properties of the ledger.                                               *)

Last(seq) == seq[Len(seq)]

RaisedType(r) == IF r.raised = None THEN "None" ELSE r.raised[1].type

\* what one account shows: its balance, its log and its counter
SameAccount(a, b) ==
    /\ a.balance = b.balance
    /\ a.transactions = b.transactions
    /\ a._transaction_counter = b._transaction_counter

(* C1: in every reachable state of the day06 ledger every account's        *)
(* balance is >= 0.                                                        *)
C1_BalanceNonNegative ==
    \A k \in DOMAIN accounts : accounts[k].balance >= 0

\* a withdrawal has emptied an account, and a larger one has been refused
C1_Witness ==
    /\ call.op = "withdraw"
    /\ RaisedType(result) = "InsufficientFundsError"
    /\ accounts[call.args[1]].balance = 0
    /\ accounts[call.args[1]].transactions # <<>>
    /\ Last(accounts[call.args[1]].transactions).type = TransactionType_WITHDRAWAL

(* C2: after every operation each account's balance equals the             *)
(* balance_after of the last transaction of its log, or 0 if the log is    *)
(* empty.                                                                  *)
C2_BalanceIsLastBalanceAfter ==
    \A k \in DOMAIN accounts :
        accounts[k].balance =
            IF accounts[k].transactions = <<>> THEN 0
            ELSE Last(accounts[k].transactions).balance_after

\* a deposit onto an opening deposit: the log holds two entries
C2_Witness ==
    /\ call.op = "deposit"
    /\ result.raised = None
    /\ Len(accounts[call.args[1]].transactions) = 2
    /\ accounts[call.args[1]].balance = 4

(* C3: withdraw(amount) on an active account with amount > 0 and           *)
(* amount > balance fails with InsufficientFundsError carrying the         *)
(* balance, the amount and shortfall = amount - balance, and leaves the    *)
(* account's balance, log and counter unchanged.                           *)
C3_WithdrawInsufficientFunds ==
    [][(/\ call'.op = "withdraw"
        /\ accounts[call'.args[1]].is_active
        /\ call'.args[2] > 0
        /\ call'.args[2] > accounts[call'.args[1]].balance)
       => LET a == accounts[call'.args[1]]
              amount == call'.args[2]
          IN  /\ result'.value = None
              /\ RaisedType(result') = "InsufficientFundsError"
              /\ result'.raised[1].balance = a.balance
              /\ result'.raised[1].amount = amount
              /\ result'.raised[1].shortfall = amount - a.balance
              /\ SameAccount(accounts'[call'.args[1]], a)
      ]_vars

\* withdraw(2) was refused on an active account that holds 1
C3_Witness ==
    /\ call.op = "withdraw"
    /\ call.args[2] = 2
    /\ RaisedType(result) = "InsufficientFundsError"
    /\ result.raised[1].shortfall = 1
    /\ accounts[call.args[1]].is_active
    /\ accounts[call.args[1]].balance = 1

(* C4 as stated: deposit(amount) and withdraw(amount) with amount <= 0    *)
(* always fail with NegativeAmountError (InvalidAmount) and leave the      *)
(* account's balance, log and counter unchanged.                           *)
C4_AlwaysInvalidAmount ==
    [][(/\ call'.op \in {"deposit", "withdraw"}
        /\ call'.args[2] <= 0)
       => /\ result'.value = None
          /\ RaisedType(result') = "NegativeAmountError"
          /\ SameAccount(accounts'[call'.args[1]], accounts[call'.args[1]])
      ]_vars

(* C4 amended: deposit(amount) and withdraw(amount) with amount <= 0 (zero *)
(* included) always fail and leave the account's balance, log and counter  *)
(* unchanged; the failure is NegativeAmountError (InvalidAmount) when the  *)
(* account is active and AccountInactiveError when it is not.              *)
C4_NonPositiveAmountFails ==
    [][(/\ call'.op \in {"deposit", "withdraw"}
        /\ call'.args[2] <= 0)
       => /\ result'.value = None
          /\ RaisedType(result') =
                IF accounts[call'.args[1]].is_active
                THEN "NegativeAmountError" ELSE "AccountInactiveError"
          /\ RaisedType(result') = "NegativeAmountError"
                => result'.raised[1].amount = call'.args[2]
          /\ SameAccount(accounts'[call'.args[1]], accounts[call'.args[1]])
      ]_vars

\* withdraw(0) was refused on an active account that holds money
C4_Witness ==
    /\ call.op = "withdraw"
    /\ call.args[2] = 0
    /\ RaisedType(result) = "NegativeAmountError"
    /\ accounts[call.args[1]].is_active
    /\ accounts[call.args[1]].balance > 0

(* C5: for two distinct existing active accounts A and B and               *)
(* 0 < amount <= A.balance, transfer(A, B, amount) succeeds, takes exactly *)
(* amount from A and adds exactly amount to B, appends one WITHDRAWAL to   *)
(* A's log and one DEPOSIT to B's log, and returns (withdrawal, deposit)   *)
(* with withdrawal.balance_after = new A.balance and                       *)
(* deposit.balance_after = new B.balance.                                  *)
C5_TransferSucceeds ==
    [][(/\ call'.op = "transfer"
        /\ call'.args[1] \in DOMAIN accounts
        /\ call'.args[2] \in DOMAIN accounts
        /\ call'.args[1] # call'.args[2]
        /\ accounts[call'.args[1]].is_active
        /\ accounts[call'.args[2]].is_active
        /\ call'.args[3] > 0
        /\ call'.args[3] <= accounts[call'.args[1]].balance)
       => LET A == accounts[call'.args[1]]
              B == accounts[call'.args[2]]
              A2 == accounts'[call'.args[1]]
              B2 == accounts'[call'.args[2]]
              amount == call'.args[3]
          IN  /\ result'.raised = None
              /\ A2.balance = A.balance - amount
              /\ B2.balance = B.balance + amount
              /\ Len(A2.transactions) = Len(A.transactions) + 1
              /\ SubSeq(A2.transactions, 1, Len(A.transactions)) = A.transactions
              /\ Len(B2.transactions) = Len(B.transactions) + 1
              /\ SubSeq(B2.transactions, 1, Len(B.transactions)) = B.transactions
              /\ Last(A2.transactions).type.name = "WITHDRAWAL"
              /\ Last(A2.transactions).amount = amount
              /\ Last(B2.transactions).type.name = "DEPOSIT"
              /\ Last(B2.transactions).amount = amount
              /\ result'.value = Some(<<Last(A2.transactions), Last(B2.transactions)>>)
              /\ result'.value[1][1].balance_after = A.balance - amount
              /\ result'.value[1][2].balance_after = B.balance + amount
      ]_vars

\* transfer(A, B, 1) with A and B holding 2: 1 and 3 afterwards
C5_Witness ==
    /\ call.op = "transfer"
    /\ call.args[1] # call.args[2]
    /\ call.args[3] = 1
    /\ result.raised = None
    /\ accounts[call.args[1]].balance = 1
    /\ accounts[call.args[2]].balance = 3
    /\ result.value[1][1].balance_after = 1
    /\ result.value[1][2].balance_after = 3

(* C6: transfer(A, B, amount) with amount > A.balance, A and B existing    *)
(* and A active, fails with InsufficientFundsError whose shortfall is      *)
(* amount - A.balance and leaves A and B (balance, log, counter)           *)
(* unchanged.                                                              *)
C6_TransferInsufficientFunds ==
    [][(/\ call'.op = "transfer"
        /\ call'.args[1] \in DOMAIN accounts
        /\ call'.args[2] \in DOMAIN accounts
        /\ accounts[call'.args[1]].is_active
        /\ call'.args[3] > accounts[call'.args[1]].balance)
       => /\ result'.value = None
          /\ RaisedType(result') = "InsufficientFundsError"
          /\ result'.raised[1].shortfall
                = call'.args[3] - accounts[call'.args[1]].balance
          /\ SameAccount(accounts'[call'.args[1]], accounts[call'.args[1]])
          /\ SameAccount(accounts'[call'.args[2]], accounts[call'.args[2]])
      ]_vars

\* transfer(A, B, 2) was refused with A holding 1 and B another account
C6_Witness ==
    /\ call.op = "transfer"
    /\ call.args[1] # call.args[2]
    /\ call.args[2] \in DOMAIN accounts
    /\ call.args[3] = 2
    /\ RaisedType(result) = "InsufficientFundsError"
    /\ result.raised[1].shortfall = 1
    /\ accounts[call.args[1]].balance = 1

(* C7: for every reachable state of the day07 ledger, saving it and        *)
(* constructing a fresh manager on the saved file yields the same account  *)
(* IDs, for every account the same owner, balance, log and transaction     *)
(* counter, and the same account counter.                                  *)
C7_RoundTrip ==
    LET fresh == AccountManager__post_init__(save_to_file(Manager, "written").self.data_file).self
    IN  /\ DOMAIN fresh.accounts = DOMAIN accounts
        /\ \A k \in DOMAIN accounts :
              /\ fresh.accounts[k].account_id = accounts[k].account_id
              /\ fresh.accounts[k].owner = accounts[k].owner
              /\ SameAccount(fresh.accounts[k], accounts[k])
        /\ fresh._account_counter = _account_counter

\* a manager was constructed on a file that holds two accounts, one with an
\* opening deposit and two more transactions
C7_Witness ==
    /\ call.op = "AccountManager"
    /\ _account_counter = 2
    /\ Cardinality(DOMAIN accounts) = 2
    /\ \E k \in DOMAIN accounts :
          /\ Len(accounts[k].transactions) = 3
          /\ accounts[k]._transaction_counter = 2

(* C8: get_account with an ID that is not a key of the ledger fails with   *)
(* AccountNotFoundError and leaves the account map and the account counter *)
(* unchanged.                                                              *)
C8_UnknownAccountNotFound ==
    [][(/\ call'.op = "get_account"
        /\ call'.args[1] \notin DOMAIN accounts)
       => /\ result'.value = None
          /\ RaisedType(result') = "AccountNotFoundError"
          /\ result'.raised[1].account_id = call'.args[1]
          /\ DOMAIN accounts' = DOMAIN accounts
          /\ accounts' = accounts
          /\ _account_counter' = _account_counter
      ]_vars

\* the lookup of INVALID-123 was refused in a ledger of two accounts
C8_Witness ==
    /\ call.op = "get_account"
    /\ RaisedType(result) = "AccountNotFoundError"
    /\ call.args[1] \notin DOMAIN accounts
    /\ Cardinality(DOMAIN accounts) = 2

\* the balances of the active accounts, the others counted as nothing
RECURSIVE ActiveTotal(_, _)
ActiveTotal(accs, ids) ==
    IF ids = {} THEN 0
    ELSE LET k == CHOOSE x \in ids : TRUE
         IN  (IF accs[k].is_active THEN accs[k].balance ELSE 0)
             + ActiveTotal(accs, ids \ {k})

(* C9: get_total_balance returns the sum of balance over the accounts      *)
(* whose is_active is true, inactive accounts contributing nothing, and    *)
(* changes no state.                                                       *)
C9_TotalBalanceOfActive ==
    [][(call'.op = "get_total_balance")
       => /\ result'.raised = None
          /\ result'.value = Some(ActiveTotal(accounts, DOMAIN accounts))
          /\ accounts' = accounts
          /\ _account_counter' = _account_counter
          /\ data_file' = data_file
      ]_vars

\* three accounts holding 2 each, the third inactive: the total is 4
C9_Witness ==
    /\ call.op = "get_total_balance"
    /\ result.value = Some(4)
    /\ Cardinality(DOMAIN accounts) = 3
    /\ \A k \in DOMAIN accounts : accounts[k].balance = 2
    /\ Cardinality({k \in DOMAIN accounts : accounts[k].is_active}) = 2

(* C10: transfer is not atomic: with A active, 0 < amount <= A.balance and *)
(* B existing but inactive, transfer(A, B, amount) fails with              *)
(* AccountInactiveError after the withdrawal, leaving A.balance reduced by *)
(* amount with a WITHDRAWAL appended to A's log and B unchanged.           *)
C10_TransferNotAtomic ==
    [][(/\ call'.op = "transfer"
        /\ call'.args[1] \in DOMAIN accounts
        /\ call'.args[2] \in DOMAIN accounts
        /\ accounts[call'.args[1]].is_active
        /\ ~accounts[call'.args[2]].is_active
        /\ call'.args[3] > 0
        /\ call'.args[3] <= accounts[call'.args[1]].balance)
       => LET A == accounts[call'.args[1]]
              A2 == accounts'[call'.args[1]]
              amount == call'.args[3]
          IN  /\ result'.value = None
              /\ RaisedType(result') = "AccountInactiveError"
              /\ result'.raised[1].account_id = call'.args[2]
              /\ A2.balance = A.balance - amount
              /\ Len(A2.transactions) = Len(A.transactions) + 1
              /\ SubSeq(A2.transactions, 1, Len(A.transactions)) = A.transactions
              /\ Last(A2.transactions).type.name = "WITHDRAWAL"
              /\ Last(A2.transactions).amount = amount
              /\ Last(A2.transactions).balance_after = A.balance - amount
              /\ accounts'[call'.args[2]] = accounts[call'.args[2]]
      ]_vars

\* a transfer of 1 to an inactive account was refused and the source, which
\* held 2, is left with 1 and a WITHDRAWAL at the end of its log
C10_Witness ==
    /\ call.op = "transfer"
    /\ call.args[3] = 1
    /\ RaisedType(result) = "AccountInactiveError"
    /\ ~accounts[call.args[2]].is_active
    /\ accounts[call.args[1]].is_active
    /\ accounts[call.args[1]].balance = 1
    /\ Last(accounts[call.args[1]].transactions).type.name = "WITHDRAWAL"
    /\ accounts[call.args[2]].balance = 2

\* the snapshot document of a ledger, field by field
SnapshotOf(accs, counter) ==
    [accounts |->
        [k \in DOMAIN accs |->
            [account_id |-> accs[k].account_id,
             owner |-> accs[k].owner,
             balance |-> accs[k].balance,
             transactions |->
                [i \in 1..Len(accs[k].transactions) |->
                    [id |-> accs[k].transactions[i].id,
                     type |-> accs[k].transactions[i].type.name,
                     amount |-> accs[k].transactions[i].amount,
                     balance_after |-> accs[k].transactions[i].balance_after,
                     description |-> accs[k].transactions[i].description]],
             _transaction_counter |-> accs[k]._transaction_counter]],
     _account_counter |-> counter]

(* C11: write-through persistence of the day07 ledger: after every         *)
(* create_account, deposit or withdraw of the manager that returns, the    *)
(* content of data_file is exactly the serialization of the manager's      *)
(* state after the call (every account with its whole log and its          *)
(* transaction counter, and the account counter), whatever the file held   *)
(* before; a call that raises leaves the file as it was.                   *)
C11_WriteThrough ==
    [][(call'.op \in {"create_account", "deposit", "withdraw"})
       => IF result'.raised = None
          THEN data_file' = Some(SnapshotOf(accounts', _account_counter'))
          ELSE data_file' = data_file
      ]_vars

(* C12 as stated: constructing the manager while data_file is absent does  *)
(* not fail and yields an empty account map and counter = 1.               *)
C12_AbsentGivesCounterOne ==
    [][(call'.op = "AccountManager" /\ data_file = None)
       => /\ result'.raised = None
          /\ accounts' = <<>>
          /\ _account_counter' = 1
      ]_vars

(* C12 amended: constructing the manager while data_file is absent does    *)
(* not fail, creates no file and yields an empty account map and           *)
(* _account_counter = 0 (the counter holds the last value issued, so the   *)
(* first account created afterwards gets 1).                               *)
C12_AbsentGivesEmpty ==
    [][(call'.op = "AccountManager" /\ data_file = None)
       => /\ result'.raised = None
          /\ accounts' = <<>>
          /\ _account_counter' = 0
          /\ data_file' = None
      ]_vars

\* a manager constructed with no file: nothing loaded, nothing written
C12_Witness ==
    /\ call.op = "AccountManager"
    /\ result.raised = None
    /\ data_file = None
    /\ accounts = <<>>
    /\ _account_counter = 0

(* C13 as stated: when the content of data_file cannot be decoded,         *)
(* constructing the manager recovers by falling back to an empty ledger    *)
(* instead of failing.                                                     *)
C13_DecodeFailureFallsBack ==
    [][(call'.op = "AccountManager" /\ data_file = Some(Undecodable))
       => /\ result'.raised = None
          /\ accounts' = <<>>
      ]_vars

(* C13 amended: when the content of data_file cannot be decoded,           *)
(* constructing the manager fails: load_from_file logs the error and       *)
(* re-raises JSONDecodeError, the caller gets no manager, and the file is  *)
(* left as it was.                                                         *)
C13_DecodeFailureRaises ==
    [][(call'.op = "AccountManager" /\ data_file = Some(Undecodable))
       => /\ RaisedType(result') = "JSONDecodeError"
          /\ result'.value = None
          /\ data_file' = data_file
          /\ ~ManagerExists'
      ]_vars

\* the constructor raised on a file whose save was cut short
C13_Witness ==
    /\ call.op = "AccountManager"
    /\ RaisedType(result) = "JSONDecodeError"
    /\ data_file = Some(Undecodable)

(* C14: deposit and withdraw on an account whose is_active is false       *)
(* always fail with AccountInactiveError (InactiveAccount), for every      *)
(* amount (negative, zero, within the balance, above the balance), and     *)
(* leave the account's balance, log and counter unchanged.                 *)
C14_InactiveAccountFails ==
    [][(/\ call'.op \in {"deposit", "withdraw"}
        /\ ~accounts[call'.args[1]].is_active)
       => /\ result'.value = None
          /\ RaisedType(result') = "AccountInactiveError"
          /\ result'.raised[1].account_id = call'.args[1]
          /\ SameAccount(accounts'[call'.args[1]], accounts[call'.args[1]])
          /\ ~accounts'[call'.args[1]].is_active
      ]_vars

\* deposit(1) was refused on a deactivated account that holds 2
C14_Witness ==
    /\ call.op = "deposit"
    /\ call.args[2] = 1
    /\ RaisedType(result) = "AccountInactiveError"
    /\ ~accounts[call.args[1]].is_active
    /\ accounts[call.args[1]].balance = 2

\* the counter part of the n-th ID minted
CounterText(n) ==
    <<"0001", "0002", "0003", "0004", "0005", "0006", "0007", "0008", "0009">>[n]

\* the transactions of a log that deposit or withdraw minted: all but the
\* opening deposit, which carries the marker 0000
Minted(a) ==
    SelectSeq(a.transactions, LAMBDA t : t.id # a.account_id \o "-TXN-0000")

(* C15: the IDs minted by deposit and withdraw use a per-account counter   *)
(* that starts at 1 and advances by exactly 1 per successful mutation: a   *)
(* deposit or withdraw that returns gets counter value (counter before)+1, *)
(* one that fails leaves the counter as it was, and so in every account    *)
(* the k-th minted transaction of the log carries counter value k and the  *)
(* counter equals the number of minted transactions.                       *)
C15_CounterCountsSuccesses ==
    [][/\ (call'.op \in {"deposit", "withdraw"})
          => LET k == call'.args[1]
                 n == accounts[k]._transaction_counter
             IN  IF result'.raised = None
                 THEN /\ accounts'[k]._transaction_counter = n + 1
                      /\ result'.value[1].id = k \o "-TXN-" \o CounterText(n + 1)
                      /\ Last(accounts'[k].transactions) = result'.value[1]
                 ELSE /\ accounts'[k]._transaction_counter = n
                      /\ accounts'[k].transactions = accounts[k].transactions
       /\ \A k \in DOMAIN accounts' :
             /\ Len(Minted(accounts'[k])) = accounts'[k]._transaction_counter
             /\ \A i \in 1..Len(Minted(accounts'[k])) :
                   Minted(accounts'[k])[i].id = k \o "-TXN-" \o CounterText(i)
      ]_vars

\* the second successful mutation of an account opened with a deposit got
\* counter value 2
C15_Witness ==
    /\ call.op \in {"deposit", "withdraw"}
    /\ result.raised = None
    /\ result.value[1].id = call.args[1] \o "-TXN-0002"
    /\ accounts[call.args[1]]._transaction_counter = 2
    /\ Len(accounts[call.args[1]].transactions) = 3

(* C16: in every reachable state each account's _transaction_counter is    *)
(* non-decreasing over time and equals the number of transactions created  *)
(* for the account, which is the length of its log, also for an account    *)
(* created with a positive initial deposit.                                *)
C16_CounterEqualsLogLength ==
    [][\A k \in DOMAIN accounts' :
          /\ accounts'[k]._transaction_counter = Len(accounts'[k].transactions)
          /\ k \in DOMAIN accounts
                => accounts'[k]._transaction_counter
                      >= accounts[k]._transaction_counter
      ]_vars

(* C17: in every reachable state of the day07 ledger, states loaded from  *)
(* a file the ledger saved included, every key of accounts is the          *)
(* account_id of the account stored under it and _account_counter is at    *)
(* least the number of accounts created (none is ever removed, so the      *)
(* number of accounts in the map).                                         *)
C17_KeysAndCounter ==
    /\ \A k \in DOMAIN accounts : accounts[k].account_id = k
    /\ _account_counter >= Cardinality(DOMAIN accounts)

\* a manager constructed on a file that holds two accounts
C17_Witness ==
    /\ call.op = "AccountManager"
    /\ result.raised = None
    /\ DOMAIN accounts = {"ACC-000001", "ACC-000002"}
    /\ accounts["ACC-000002"].account_id = "ACC-000002"
    /\ _account_counter = 2

\* the counter part of the k-th account ID
AccountText(k) == <<"000001", "000002", "000003", "000004">>[k]

(* C18: account IDs are allocated in sequence from a counter that starts   *)
(* at 1: the k-th create_account that returns gives the ID with counter    *)
(* value k, whatever failed attempts came before; the ID was not a key of  *)
(* the map, every existing entry is left as it was, and no two accounts of *)
(* the ledger have the same ID.                                            *)
C18_SequentialAccountIds ==
    [][(call'.op = "create_account" /\ result'.raised = None)
       => LET k == Cardinality(DOMAIN accounts) + 1
              id == result'.value[1].account_id
          IN  /\ id = "ACC-" \o AccountText(k)
              /\ _account_counter' = k
              /\ id \notin DOMAIN accounts
              /\ DOMAIN accounts' = DOMAIN accounts \cup {id}
              /\ accounts'[id] = result'.value[1]
              /\ \A j \in DOMAIN accounts : accounts'[j] = accounts[j]
              /\ \A i, j \in DOMAIN accounts' :
                    accounts'[i].account_id = accounts'[j].account_id => i = j
      ]_vars

\* the second account was created next to the first, which holds money
C18_Witness ==
    /\ call.op = "create_account"
    /\ result.raised = None
    /\ result.value[1].account_id = "ACC-000002"
    /\ DOMAIN accounts = {"ACC-000001", "ACC-000002"}
    /\ accounts["ACC-000001"].balance = 2
    /\ accounts["ACC-000001"].owner = "Alice"
    /\ accounts["ACC-000002"].owner = "Bob"

(* C19: create_account with initial_deposit < 0 fails with                 *)
(* NegativeAmountError (InvalidAmount) and leaves the ledger unchanged: no *)
(* account is registered, _account_counter is not advanced, and in the     *)
(* persistent variant data_file is not written.                            *)
C19_NegativeInitialDepositFails ==
    [][(call'.op = "create_account" /\ call'.args[2] < 0)
       => /\ result'.value = None
          /\ RaisedType(result') = "NegativeAmountError"
          /\ accounts' = accounts
          /\ _account_counter' = _account_counter
          /\ data_file' = data_file
      ]_vars

\* create_account(-1) was refused by a ledger that holds one account: the
\* file still holds that account alone and the next ID is still the second
C19_Witness ==
    /\ call.op = "create_account"
    /\ call.args[2] = -1
    /\ RaisedType(result) = "NegativeAmountError"
    /\ _account_counter = 1
    /\ DOMAIN accounts = {"ACC-000001"}
    /\ data_file = Some(SnapshotOf(accounts, 1))

\* s is the beginning of t
IsPrefix(s, t) ==
    /\ Len(s) <= Len(t)
    /\ \A i \in 1..Len(s) : s[i] = t[i]

(* C20 as stated: each account's log is append-only and its entries are    *)
(* immutable: over every operation after which the client holds a ledger   *)
(* (create, deposit, withdraw, lookup, save, and the load of the file by a *)
(* new manager), every account is still there and its log before the       *)
(* operation is a prefix of its log after it, entry by entry and field by  *)
(* field.                                                                  *)
C20_LogAppendOnly ==
    [][ManagerExists'
       => \A k \in DOMAIN accounts :
             /\ k \in DOMAIN accounts'
             /\ IsPrefix(accounts[k].transactions, accounts'[k].transactions)
      ]_vars

\* the entries of a log as save_to_file writes them
SavedEntries(log) == [i \in 1..Len(log) |-> Transaction_to_dict(log[i])]

(* C20 amended: each account's log is append-only and its entries are      *)
(* immutable in the ledger that holds it and across save and load: over    *)
(* every call on a ledger (create, deposit, withdraw on the manager or on  *)
(* an account, lookup, save) every account is still there and its log      *)
(* before the call is a prefix of its log after it, field by field; a save *)
(* that writes the file writes every log entry by entry as it is in        *)
(* memory; a load gives exactly the accounts of the file, each with the    *)
(* log the file holds, entry by entry (id, kind, amount, balance_after).   *)
(* Entries appended after the last save that wrote the file are not in the *)
(* ledger a later load constructs.                                         *)
C20_LogImmutable ==
    [][/\ (call'.op # "AccountManager" /\ ManagerExists')
          => \A k \in DOMAIN accounts :
                /\ k \in DOMAIN accounts'
                /\ IsPrefix(accounts[k].transactions, accounts'[k].transactions)
       /\ (/\ call'.op \in {"create_account", "deposit", "withdraw", "save_to_file"}
           /\ result'.raised = None)
          => /\ data_file' # None
             /\ DOMAIN data_file'[1].accounts = DOMAIN accounts'
             /\ \A k \in DOMAIN accounts' :
                   data_file'[1].accounts[k].transactions
                      = SavedEntries(accounts'[k].transactions)
       /\ (call'.op = "AccountManager" /\ result'.raised = None /\ data_file # None)
          => /\ DOMAIN accounts' = DOMAIN data_file[1].accounts
             /\ \A k \in DOMAIN accounts' :
                   /\ SavedEntries(accounts'[k].transactions)
                         = data_file[1].accounts[k].transactions
                   /\ \A i \in 1..Len(accounts'[k].transactions) :
                         LET t == accounts'[k].transactions[i]
                             d == data_file[1].accounts[k].transactions[i]
                         IN  /\ t.id = d.id
                             /\ t.type.value = d.type
                             /\ t.amount = d.amount
                             /\ t.balance_after = d.balance_after
      ]_vars

\* a new manager has loaded a log of an opening deposit of 2 followed by a
\* withdrawal of 1
C20_Witness ==
    /\ call.op = "AccountManager"
    /\ result.raised = None
    /\ \E k \in DOMAIN accounts :
          /\ Len(accounts[k].transactions) = 2
          /\ accounts[k].transactions[1].amount = 2
          /\ accounts[k].transactions[1].balance_after = 2
          /\ accounts[k].transactions[2].type.name = "WITHDRAWAL"
          /\ accounts[k].transactions[2].amount = 1
          /\ accounts[k].transactions[2].balance_after = 1

(* C21: the snapshot is written as one atomic document: over every step,  *)
(* a stop of the process in the middle of save_to_file included, data_file *)
(* holds either what it held before or the complete snapshot of the new    *)
(* state, never a partial document, so a later load never meets one.       *)
C21_SnapshotAtomic ==
    [][/\ data_file' # Some(Undecodable)
       /\ \/ data_file' = data_file
          \/ data_file' = Some(SnapshotOf(accounts', _account_counter'))
      ]_vars

(* C22: deposit(amount) with amount > 0 on an active account increases the *)
(* balance by exactly amount, appends exactly one transaction of kind      *)
(* DEPOSIT with that amount and balance_after equal to the new balance,    *)
(* returns that same transaction, and changes no other account.            *)
C22_DepositSucceeds ==
    [][(/\ call'.op = "deposit"
        /\ accounts[call'.args[1]].is_active
        /\ call'.args[2] > 0)
       => LET k == call'.args[1]
              a == accounts[k]
              a2 == accounts'[k]
              amount == call'.args[2]
          IN  /\ result'.raised = None
              /\ a2.balance = a.balance + amount
              /\ Len(a2.transactions) = Len(a.transactions) + 1
              /\ SubSeq(a2.transactions, 1, Len(a.transactions)) = a.transactions
              /\ Last(a2.transactions).type.name = "DEPOSIT"
              /\ Last(a2.transactions).amount = amount
              /\ Last(a2.transactions).balance_after = a.balance + amount
              /\ result'.value = Some(Last(a2.transactions))
              /\ DOMAIN accounts' = DOMAIN accounts
              /\ \A j \in DOMAIN accounts \ {k} : accounts'[j] = accounts[j]
      ]_vars

\* deposit(2) on an active account that held 1, next to another account
C22_Witness ==
    /\ call.op = "deposit"
    /\ call.args[2] = 2
    /\ result.raised = None
    /\ result.value[1].balance_after = 3
    /\ accounts[call.args[1]].balance = 3
    /\ Cardinality(DOMAIN accounts) = 2

(* C23: create_account(owner, d) with d > 0 registers an account whose     *)
(* balance is d and whose log holds exactly one opening DEPOSIT            *)
(* transaction with amount d, balance_after d and the marker ID            *)
(* <account_id>-TXN-0000, built without deposit: _transaction_counter      *)
(* stays 0; with d = 0 the new account has balance 0 and an empty log.     *)
C23_OpeningDeposit ==
    [][(call'.op = "create_account" /\ call'.args[2] >= 0)
       => LET d == call'.args[2]
              id == "ACC-" \o AccountText(_account_counter + 1)
          IN  /\ result'.raised = None
              /\ id \in DOMAIN accounts'
              /\ result'.value = Some(accounts'[id])
              /\ accounts'[id].owner = call'.args[1]
              /\ accounts'[id].balance = d
              /\ accounts'[id]._transaction_counter = 0
              /\ accounts'[id].is_active
              /\ IF d > 0
                 THEN /\ Len(accounts'[id].transactions) = 1
                      /\ accounts'[id].transactions[1].id = id \o "-TXN-0000"
                      /\ accounts'[id].transactions[1].type.name = "DEPOSIT"
                      /\ accounts'[id].transactions[1].amount = d
                      /\ accounts'[id].transactions[1].balance_after = d
                 ELSE accounts'[id].transactions = <<>>
      ]_vars

\* the second account was opened with 2 and the first with nothing
C23_Witness ==
    /\ call.op = "create_account"
    /\ call.args[2] = 2
    /\ result.raised = None
    /\ DOMAIN accounts = {"ACC-000001", "ACC-000002"}
    /\ accounts["ACC-000001"].transactions = <<>>
    /\ accounts["ACC-000001"].balance = 0
    /\ Len(accounts["ACC-000002"].transactions) = 1
    /\ accounts["ACC-000002"].transactions[1].id = "ACC-000002-TXN-0000"
    /\ accounts["ACC-000002"]._transaction_counter = 0

(* C24: transfer resolves both accounts before it mutates anything: if    *)
(* from_id or to_id is not a key of the ledger (also when from_id exists   *)
(* with enough money and only to_id is unknown), transfer fails with       *)
(* AccountNotFoundError for the first unknown ID and every account's       *)
(* balance, log and counter is unchanged.                                  *)
C24_TransferUnknownAccount ==
    [][(/\ call'.op = "transfer"
        /\ \/ call'.args[1] \notin DOMAIN accounts
           \/ call'.args[2] \notin DOMAIN accounts)
       => /\ result'.value = None
          /\ RaisedType(result') = "AccountNotFoundError"
          /\ result'.raised[1].account_id =
                IF call'.args[1] \notin DOMAIN accounts
                THEN call'.args[1] ELSE call'.args[2]
          /\ DOMAIN accounts' = DOMAIN accounts
          /\ \A k \in DOMAIN accounts : SameAccount(accounts'[k], accounts[k])
          /\ accounts' = accounts
      ]_vars

\* a transfer of 1 from an active account that holds 2 to INVALID-123 was
\* refused and the source still holds 2
C24_Witness ==
    /\ call.op = "transfer"
    /\ call.args[1] \in DOMAIN accounts
    /\ call.args[2] \notin DOMAIN accounts
    /\ call.args[3] = 1
    /\ RaisedType(result) = "AccountNotFoundError"
    /\ accounts[call.args[1]].is_active
    /\ accounts[call.args[1]].balance = 2
    /\ Len(accounts[call.args[1]].transactions) = 1

(* C25: within transfer, whenever the withdrawal leg on the source has     *)
(* succeeded (a withdrawal was logged on the source), the deposit leg on   *)
(* the destination succeeds as well: the transfer returns and the          *)
(* destination's log ends with the deposit of that amount; no transfer     *)
(* ends with the source debited and the destination not credited.          *)
C25_DepositLegAlwaysSucceeds ==
    [][(/\ call'.op = "transfer"
        /\ call'.args[1] \in DOMAIN accounts
        /\ call'.args[2] \in DOMAIN accounts
        /\ accounts'[call'.args[1]].transactions
              # accounts[call'.args[1]].transactions)
       => LET B == accounts[call'.args[2]]
              B2 == accounts'[call'.args[2]]
          IN  /\ result'.raised = None
              /\ Len(B2.transactions) > Len(B.transactions)
              /\ Last(B2.transactions).type.name = "DEPOSIT"
              /\ Last(B2.transactions).amount = call'.args[3]
      ]_vars

\* the number an ID of the account ends with, -1 if it is no such ID
CounterPart(account_id, id) ==
    IF id = account_id \o "-TXN-0000" THEN 0
    ELSE IF \E n \in 1..9 : id = account_id \o "-TXN-" \o CounterText(n)
    THEN CHOOSE n \in 1..9 : id = account_id \o "-TXN-" \o CounterText(n)
    ELSE -1

(* C26: within one account's log the transaction IDs are pairwise distinct *)
(* and their counter parts strictly increase in log order, in every        *)
(* reachable state of the day07 ledger: after create_account with or       *)
(* without an initial deposit, deposit, withdraw, and for the transactions *)
(* appended after the ledger was saved and loaded by a new manager.        *)
C26_TransactionIdsIncrease ==
    \A k \in DOMAIN accounts :
        LET log == accounts[k].transactions
        IN  /\ \A i \in 1..Len(log) : CounterPart(k, log[i].id) >= 0
            /\ \A i, j \in 1..Len(log) :
                  i < j => /\ log[i].id # log[j].id
                           /\ CounterPart(k, log[i].id) < CounterPart(k, log[j].id)

\* a log of an opening deposit and two minted transactions, the ledger
\* holding the same in its file
C26_Witness ==
    /\ call.op \in {"deposit", "withdraw"}
    /\ result.raised = None
    /\ data_file = Some(SnapshotOf(accounts, _account_counter))
    /\ LET log == accounts[call.args[1]].transactions
       IN  /\ Len(log) = 3
           /\ CounterPart(call.args[1], log[1].id) = 0
           /\ CounterPart(call.args[1], log[2].id) = 1
           /\ CounterPart(call.args[1], log[3].id) = 2

(* C27: every transaction in any account's log has amount > 0, the         *)
(* opening deposit built by create_account included (it is only built      *)
(* when initial_deposit > 0).                                              *)
C27_AmountsPositive ==
    \A k \in DOMAIN accounts :
        \A i \in 1..Len(accounts[k].transactions) :
            accounts[k].transactions[i].amount > 0

\* next to an account opened with nothing, a log of an opening deposit of
\* 2 and a withdrawal of 1, after a deposit of 0 was refused
C27_Witness ==
    /\ call.op = "deposit"
    /\ call.args[2] = 0
    /\ RaisedType(result) = "NegativeAmountError"
    /\ \E k \in DOMAIN accounts : accounts[k].transactions = <<>>
    /\ \E k \in DOMAIN accounts :
          /\ Len(accounts[k].transactions) = 2
          /\ accounts[k].transactions[1].amount = 2
          /\ accounts[k].transactions[2].amount = 1
          /\ accounts[k].transactions[2].type.name = "WITHDRAWAL"

\* the calls a client can make on a day07 manager (0 stands for the
\* amounts that are refused as not positive)
LedgerOps(self) ==
    {[op |-> "create_account", args |-> <<Owners[1], d>>] :
        d \in InitialDeposits}
    \cup {[op |-> o, args |-> <<k, amount>>] :
            o \in {"deposit", "withdraw"},
            k \in DOMAIN self.accounts \cup UnknownIds,
            amount \in Amounts \ {-1}}
    \cup {[op |-> "get_account", args |-> <<k>>] :
            k \in DOMAIN self.accounts \cup UnknownIds}

\* the manager after the call, with what the call raised or returned
Apply(self, o) ==
    CASE o.op = "create_account" ->
            Persistent_create_account(self, o.args[1], o.args[2], "written")
      [] o.op = "deposit" ->
            AccountManager_deposit(self, o.args[1], o.args[2], None, "written")
      [] o.op = "withdraw" ->
            AccountManager_withdraw(self, o.args[1], o.args[2], None, "written")
      [] o.op = "get_account" ->
            Persistent_get_account(self, o.args[1])

\* the same ledger: the same accounts with their logs and counters
SameLedger(a, b) ==
    /\ a.accounts = b.accounts
    /\ a._account_counter = b._account_counter

\* two calls with the same outcome that leave the same ledger
SameResult(ra, rb) ==
    /\ Outcome(ra) = Outcome(rb)
    /\ SameLedger(ra.self, rb.self)
    /\ ra.raised = None => ra.self.data_file = rb.self.data_file

\* the manager a new process constructs on the file
Resumed == AccountManager__post_init__(data_file)

(* C28: exact resumption: for every reachable state S of the day07 ledger  *)
(* and every sequence of one or two calls, the calls applied to a manager  *)
(* constructed from the snapshot of S raise or return the same (error      *)
(* kind, minted account and transaction IDs) and leave the same ledger as  *)
(* the calls applied to S itself.  The snapshot of S is the file after     *)
(* save_to_file has written it: the property is stated where S has just    *)
(* been saved, and the client can save in every state in which it holds a  *)
(* ledger.                                                                 *)
C28_ExactResumption ==
    (call.op = "save_to_file" /\ result.raised = None)
    => LET fresh == Resumed
       IN  /\ fresh.raised = None
           /\ SameLedger(fresh.self, Manager)
           /\ \A o1 \in LedgerOps(Manager) :
                 LET ra == Apply(Manager, o1)
                     rb == Apply(fresh.self, o1)
                 IN  /\ SameResult(ra, rb)
                     /\ \A o2 \in LedgerOps(ra.self) :
                           SameResult(Apply(ra.self, o2), Apply(rb.self, o2))

\* a ledger of two accounts, one opened with a deposit and with one minted
\* transaction: on the resumed manager the next account is the third and
\* the next deposit on that account mints 0002
C28_Witness ==
    /\ call.op = "save_to_file"
    /\ result.raised = None
    /\ Cardinality(DOMAIN accounts) = 2
    /\ \E k \in DOMAIN accounts :
          /\ Len(accounts[k].transactions) = 2
          /\ accounts[k]._transaction_counter = 1
          /\ Apply(Resumed.self, [op |-> "deposit", args |-> <<k, 1>>]).value[1].id
                = k \o "-TXN-0002"
    /\ Apply(Resumed.self, [op |-> "create_account", args |-> <<"Alice", 0>>])
          .value[1].account_id = "ACC-000003"

(* C29: the error precedence of deposit and withdraw is fixed: the active *)
(* check first, then the amount check, then (withdraw) the funds check.    *)
(* An inactive account called with amount <= 0 reports                     *)
(* AccountInactiveError, not NegativeAmountError; an inactive account      *)
(* called with amount > balance reports AccountInactiveError, not          *)
(* InsufficientFundsError; an active account called with amount <= 0       *)
(* reports NegativeAmountError whatever its balance.                       *)
C29_ErrorPrecedence ==
    [][(call'.op \in {"deposit", "withdraw"})
       => LET a == accounts[call'.args[1]]
              amount == call'.args[2]
          IN  RaisedType(result') =
                IF ~a.is_active THEN "AccountInactiveError"
                ELSE IF amount <= 0 THEN "NegativeAmountError"
                ELSE IF call'.op = "withdraw" /\ amount > a.balance
                     THEN "InsufficientFundsError"
                ELSE "None"
      ]_vars

\* withdraw(-1) on a deactivated account that holds 2 reported the account
C29_Witness ==
    /\ call.op = "withdraw"
    /\ call.args[2] = -1
    /\ RaisedType(result) = "AccountInactiveError"
    /\ ~accounts[call.args[1]].is_active
    /\ accounts[call.args[1]].balance = 2
    /\ Len(accounts[call.args[1]].transactions) = 1

(* C30: conservation of money: every transfer that returns leaves the sum  *)
(* of the balances of all accounts unchanged; a transfer of an active      *)
(* account to itself with 0 < amount <= balance returns, leaves the        *)
(* balance unchanged and appends a WITHDRAWAL followed by a DEPOSIT to its *)
(* log; and only deposit, withdraw and create_account with a positive      *)
(* initial deposit change the sum.                                         *)
C30_Conservation ==
    [][LET before == SumBalances(accounts, DOMAIN accounts)
           after == SumBalances(accounts', DOMAIN accounts')
       IN  /\ (call'.op = "transfer" /\ result'.raised = None)
                 => after = before
           /\ (/\ call'.op = "transfer"
               /\ call'.args[1] = call'.args[2]
               /\ call'.args[1] \in DOMAIN accounts
               /\ accounts[call'.args[1]].is_active
               /\ call'.args[3] > 0
               /\ call'.args[3] <= accounts[call'.args[1]].balance)
                 => LET a == accounts[call'.args[1]]
                        a2 == accounts'[call'.args[1]]
                        n == Len(a.transactions)
                    IN  /\ result'.raised = None
                        /\ a2.balance = a.balance
                        /\ Len(a2.transactions) = n + 2
                        /\ SubSeq(a2.transactions, 1, n) = a.transactions
                        /\ a2.transactions[n + 1].type.name = "WITHDRAWAL"
                        /\ a2.transactions[n + 2].type.name = "DEPOSIT"
           /\ after # before
                 => \/ call'.op \in {"deposit", "withdraw"}
                    \/ call'.op = "create_account" /\ call'.args[2] > 0
      ]_vars

=============================================================================
